---- MODULE Spec2Model ----
(***************************************************************************)
(* Model of app.py: a Streamlit form that turns Hindi/Marathi text into    *)
(* speech with edge-tts (primary, neural) and gTTS (optional fallback).    *)
(*                                                                         *)
(* Python strings and byte strings are sequences of tokens.  An Optional   *)
(* value is a sequence of length 0 (None) or 1 (the value).                *)
(***************************************************************************)
EXTENDS Integers, Sequences, FiniteSets

VARIABLES
    pc,                 \* position of the script run
    HAS_GTTS,           \* app.py:13-17, whether gtts could be imported
    text, lang, rate, pitch, fallback,      \* widgets, app.py:28-41
    locale, lang_code_for_gtts,             \* app.py:111-112
    audio_bytes, error_msg, engine_used,    \* app.py:115-132
    voices,             \* voices_manager.voices inside pick_female_voice
    voice_name,         \* app.py:75
    rate_str, pitch_str,                    \* app.py:80-81
    communicate,        \* app.py:83, the arguments of edge_tts.Communicate
    streamed,           \* chunks the edge-tts stream yielded, once it completed
    primary_err,        \* text of the exception the primary attempt raised
    gtts_wrote,         \* bytes gTTS wrote to the buffer, once it completed
    fallback_err,       \* text of the exception the fallback attempt raised
    calls,              \* how often each collaborator was invoked in this run
    ui                  \* what the page shows after the run

vars == <<pc, HAS_GTTS, text, lang, rate, pitch, fallback, locale,
          lang_code_for_gtts, audio_bytes, error_msg, engine_used, voices,
          voice_name, rate_str, pitch_str, communicate, streamed, primary_err,
          gtts_wrote, fallback_err, calls, ui>>

-----------------------------------------------------------------------------
(* Bounds of the model *)

MaxTextLen == 2

MaxCatalog == 2

MaxChunks == 2

\* the call counters saturate here (they never get this far in app.py)
CallCap == 3

(* Slider limits, app.py:37 and app.py:39 *)

RateMin == -50

RateMax == 50

PitchMin == -8

PitchMax == 8

-----------------------------------------------------------------------------
(* Optional values *)

None == << >>

Some(v) == << v >>

Val(o) == o[1]

\* Python truthiness of an Optional[str] / Optional[bytes]
Truthy(o) == o # None /\ Val(o) # << >>

\* `x or ''`
OrEmpty(o) == IF Truthy(o) THEN Val(o) ELSE << >>

SeqsUpTo(S, n) == UNION { [1..k -> S] : k \in 0..n }

-----------------------------------------------------------------------------
(* Input domains *)

Whitespace == {" "}

Chars == {" ", "a"}

Texts == SeqsUpTo(Chars, MaxTextLen)

Languages == { <<"Hindi", " (hi-IN)">>, <<"Marathi", " (mr-IN)">> }

RateChoices == {RateMin, 0, RateMax}

PitchChoices == {PitchMin, PitchMax}

Locales == {"hi-IN", "mr-IN"}

FemaleNames == { <<"Swara", "Neural">>, <<"Kavya", "Neural">>, <<"Hema">> }

MaleNames == { <<"Madhur", "Neural">> }

Voices ==
    [ShortName : FemaleNames, Locale : Locales, Gender : {"Female"}]
    \cup [ShortName : MaleNames, Locale : Locales, Gender : {"Male"}]

Catalogs == SeqsUpTo(Voices, MaxCatalog)

AudioData == { <<1>>, <<2>> }

Chunks ==
    [type : {"audio"}, data : AudioData]
    \cup [type : {"WordBoundary"}, data : { << >> }]

Streams == SeqsUpTo(Chunks, MaxChunks)

GttsOutputs == { << >>, <<3>> }

\* str(e) of an exception raised by a collaborator; it may be empty
EngineErrors == { << >>, <<"network error">> }

-----------------------------------------------------------------------------
(* Helpers of app.py *)

RECURSIVE lstrip(_)
lstrip(s) ==
    IF s # << >> /\ Head(s) \in Whitespace THEN lstrip(Tail(s)) ELSE s

RECURSIVE rstrip(_)
rstrip(s) ==
    IF s # << >> /\ s[Len(s)] \in Whitespace
    THEN rstrip(SubSeq(s, 1, Len(s) - 1)) ELSE s

strip(s) == rstrip(lstrip(s))

TextIsBlank_empty_only(t) == t = << >>

\* app.py:108, `not text.strip()`
TextIsBlank(t) == strip(t) = << >>

\* app.py:111, lang.startswith("Hindi")
LocaleOf(l) == IF Len(l) >= 1 /\ l[1] = "Hindi" THEN "hi-IN" ELSE "mr-IN"

\* app.py:112
GttsLangOf(loc) == IF loc = "hi-IN" THEN "hi" ELSE "mr"

Contains(s, tok) == \E i \in DOMAIN s : s[i] = tok

pick_female_voice_any_voice(catalog, locale_code) ==
    LET IsCandidate(v) == v.Locale = locale_code /\ v.Gender = "Female"
        IsNeural(v) == Contains(v.ShortName, "Neural")
        female_candidates == SelectSeq(catalog, IsCandidate)
        female_neural == SelectSeq(female_candidates, IsNeural)
        chosen == IF female_neural # << >> THEN female_neural
                  ELSE IF female_candidates # << >> THEN female_candidates
                  ELSE catalog
    IN  IF chosen = << >> THEN None ELSE Some(chosen[1].ShortName)

pick_female_voice_no_neural_preference(catalog, locale_code) ==
    LET IsCandidate(v) == v.Locale = locale_code /\ v.Gender = "Female"
        female_candidates == SelectSeq(catalog, IsCandidate)
    IN  IF female_candidates = << >> THEN None
        ELSE Some(female_candidates[1].ShortName)

\* app.py:55-69, applied to the catalog VoicesManager.create() fetched
pick_female_voice(catalog, locale_code) ==
    LET IsCandidate(v) == v.Locale = locale_code /\ v.Gender = "Female"
        IsNeural(v) == Contains(v.ShortName, "Neural")
        female_candidates == SelectSeq(catalog, IsCandidate)
        female_neural == SelectSeq(female_candidates, IsNeural)
        chosen == IF female_neural # << >> THEN female_neural
                  ELSE female_candidates
    IN  IF chosen = << >> THEN None ELSE Some(chosen[1].ShortName)

VoiceMissing_never(v) == FALSE

\* app.py:76, `not voice_name`
VoiceMissing(v) == ~Truthy(v)

\* app.py:77
NoVoiceMessage(loc) ==
    <<"No suitable female voice found for locale ", loc, ".">>

DigitChars == <<"0", "1", "2", "3", "4", "5", "6", "7", "8", "9">>

RECURSIVE NatToStr(_)
NatToStr(n) ==
    IF n < 10 THEN << DigitChars[n + 1] >>
    ELSE NatToStr(n \div 10) \o << DigitChars[(n % 10) + 1] >>

\* Python's str(int) as f"{n}" renders it
IntToStr(n) == IF n < 0 THEN <<"-">> \o NatToStr(-n) ELSE NatToStr(n)

SignPrefix_positive_only(n) == IF n > 0 THEN <<"+">> ELSE << >>

\* app.py:80-81, '+' if n >= 0 else ''
SignPrefix(n) == IF n >= 0 THEN <<"+">> ELSE << >>

\* app.py:80
RateStr(rate_pct) == SignPrefix(rate_pct) \o IntToStr(rate_pct) \o <<"%">>

\* app.py:81
PitchStr(pitch_semitones) ==
    SignPrefix(pitch_semitones) \o IntToStr(pitch_semitones) \o <<"s", "t">>

RECURSIVE Accumulate_last_chunk_only(_, _)
Accumulate_last_chunk_only(buffer, chunks) ==
    IF chunks = << >> THEN buffer
    ELSE Accumulate_last_chunk_only(
             IF Head(chunks).type = "audio" THEN Head(chunks).data ELSE buffer,
             Tail(chunks))

RECURSIVE Accumulate(_, _)
\* app.py:84-90, the loop writing every audio chunk to audio_buffer
Accumulate(buffer, chunks) ==
    IF chunks = << >> THEN buffer
    ELSE Accumulate(
             IF Head(chunks).type = "audio"
             THEN buffer \o Head(chunks).data ELSE buffer,
             Tail(chunks))

\* app.py:121
EdgeLabel(loc) == <<"edge-tts (Neural, ", loc, ")">>

\* app.py:130
GttsLabel(code) == <<"gTTS fallback (", code, ")">>

\* app.py:97
GttsNotInstalled ==
    <<"gTTS not installed. Run pip install gTTS or disable fallback.">>

FallbackErrorMsg_overwrite(prev, e) == <<"Fallback error: ">> \o e

\* app.py:132
FallbackErrorMsg(prev, e) == OrEmpty(prev) \o <<" | Fallback error: ">> \o e

FallbackWanted_always(ab, fb) == ab = None

\* app.py:126
FallbackWanted(ab, fb) == ab = None /\ fb

\* app.py:138-139; the timestamp filename_base inserts is left out
FileName(loc) ==
    << (IF loc = "hi-IN" THEN "voice_hi" ELSE "voice_mr"), ".mp3" >>

-----------------------------------------------------------------------------
(* State *)

NoCalls ==
    [primary |-> 0, catalog |-> 0, communicate |-> 0, fallback |-> 0, gtts |-> 0]

BlankUi ==
    [status |-> "none", label |-> << >>, audio |-> None, detail |-> None,
     file |-> << >>]

\* The locals of the script at the start of a run
Fresh ==
    /\ locale = "" /\ lang_code_for_gtts = ""
    /\ audio_bytes = None /\ error_msg = None /\ engine_used = << >>
    /\ voices = None /\ voice_name = None
    /\ rate_str = None /\ pitch_str = None /\ communicate = None
    /\ streamed = None /\ primary_err = None
    /\ gtts_wrote = None /\ fallback_err = None
    /\ calls = NoCalls /\ ui = BlankUi

Init ==
    /\ pc = "Idle"
    /\ HAS_GTTS \in BOOLEAN
    /\ text = << >>
    /\ lang = <<"Hindi", " (hi-IN)">>
    /\ rate = 0 /\ pitch = 0
    /\ fallback = TRUE
    /\ Fresh


-----------------------------------------------------------------------------
(* The main action, app.py:107-151, one step per call boundary *)

Bump(n) == IF n < CallCap THEN n + 1 ELSE n

Terminal == {"Rejected", "Succeeded", "Failed"}

\* app.py:126-134: where the script goes once the primary attempt is over
AfterPrimary(ab) ==
    IF FallbackWanted(ab, fallback) THEN "TryingFallback" ELSE "Deliver"

TerminalPc_retry(ab) == IF Truthy(ab) THEN "Succeeded" ELSE "TryingPrimary"

\* app.py:134 and 147, `if audio_bytes:` ... `else:`
TerminalPc(ab) == IF Truthy(ab) THEN "Succeeded" ELSE "Failed"

\* app.py:149, `if error_msg:` guards the technical details
DetailShown(msg) == IF Truthy(msg) THEN msg ELSE None

\* The button is pressed with the widgets set to (t, l, r, p, f): app.py:107-120
Generate(t, l, r, p, f) ==
    /\ pc = "Idle"
    /\ text' = t /\ lang' = l /\ rate' = r /\ pitch' = p /\ fallback' = f
    /\ IF TextIsBlank(t)
       THEN /\ ui' = [BlankUi EXCEPT !.status = "empty_input"]
            /\ pc' = "Rejected"
            /\ UNCHANGED <<locale, lang_code_for_gtts, calls>>
       ELSE /\ locale' = LocaleOf(l)
            /\ lang_code_for_gtts' = GttsLangOf(LocaleOf(l))
            /\ calls' = [calls EXCEPT !.primary = Bump(@)]
            /\ pc' = "TryingPrimary"
            /\ UNCHANGED ui
    /\ UNCHANGED <<HAS_GTTS, audio_bytes, error_msg, engine_used, voices,
                   voice_name, rate_str, pitch_str, communicate, streamed,
                   primary_err, gtts_wrote, fallback_err>>

\* app.py:75 with 59-69: the catalog arrives and a voice is picked from it
PickFemaleVoice(catalog) ==
    /\ pc = "TryingPrimary"
    /\ calls' = [calls EXCEPT !.catalog = Bump(@)]
    /\ voices' = Some(catalog)
    /\ voice_name' = pick_female_voice(catalog, locale)
    /\ pc' = "Picked"
    /\ UNCHANGED <<HAS_GTTS, text, lang, rate, pitch, fallback, locale,
                   lang_code_for_gtts, audio_bytes, error_msg, engine_used,
                   rate_str, pitch_str, communicate, streamed, primary_err,
                   gtts_wrote, fallback_err, ui>>

\* app.py:59 raises; the handler of app.py:122-123 keeps str(e)
CatalogFetchFails(e) ==
    /\ pc = "TryingPrimary"
    /\ calls' = [calls EXCEPT !.catalog = Bump(@)]
    /\ primary_err' = Some(e)
    /\ error_msg' = Some(e)
    /\ pc' = AfterPrimary(audio_bytes)
    /\ UNCHANGED <<HAS_GTTS, text, lang, rate, pitch, fallback, locale,
                   lang_code_for_gtts, audio_bytes, engine_used, voices,
                   voice_name, rate_str, pitch_str, communicate, streamed,
                   gtts_wrote, fallback_err, ui>>

\* app.py:76-83: no voice raises RuntimeError, else Communicate is built
SynthEdgeTts ==
    /\ pc = "Picked"
    /\ voices' = None
    /\ IF VoiceMissing(voice_name)
       THEN /\ primary_err' = Some(NoVoiceMessage(locale))
            /\ error_msg' = Some(NoVoiceMessage(locale))
            /\ voice_name' = None
            /\ pc' = AfterPrimary(audio_bytes)
            /\ UNCHANGED <<rate_str, pitch_str, communicate, calls>>
       ELSE /\ rate_str' = Some(RateStr(rate))
            /\ pitch_str' = Some(PitchStr(pitch))
            /\ communicate' = Some([text |-> text, voice |-> voice_name,
                                    rate |-> RateStr(rate),
                                    pitch |-> PitchStr(pitch)])
            /\ calls' = [calls EXCEPT !.communicate = Bump(@)]
            /\ pc' = "Streaming"
            /\ UNCHANGED <<voice_name, primary_err, error_msg>>
    /\ UNCHANGED <<HAS_GTTS, text, lang, rate, pitch, fallback, locale,
                   lang_code_for_gtts, audio_bytes, engine_used, streamed,
                   gtts_wrote, fallback_err, ui>>

\* app.py:86-90 and 120-121: the stream ends, the buffer is returned
StreamCompletes(chunks) ==
    /\ pc = "Streaming"
    /\ streamed' = Some(chunks)
    /\ audio_bytes' = Some(Accumulate(<< >>, chunks))
    /\ engine_used' = EdgeLabel(locale)
    /\ voice_name' = None /\ rate_str' = None /\ pitch_str' = None
    /\ communicate' = None
    /\ pc' = AfterPrimary(Some(Accumulate(<< >>, chunks)))
    /\ UNCHANGED <<HAS_GTTS, text, lang, rate, pitch, fallback, locale,
                   lang_code_for_gtts, error_msg, voices, primary_err,
                   gtts_wrote, fallback_err, calls, ui>>

\* app.py:86 raises while streaming; app.py:122-123 keeps str(e)
StreamFails(e) ==
    /\ pc = "Streaming"
    /\ primary_err' = Some(e)
    /\ error_msg' = Some(e)
    /\ voice_name' = None /\ rate_str' = None /\ pitch_str' = None
    /\ communicate' = None
    /\ pc' = AfterPrimary(audio_bytes)
    /\ UNCHANGED <<HAS_GTTS, text, lang, rate, pitch, fallback, locale,
                   lang_code_for_gtts, audio_bytes, engine_used, voices,
                   streamed, gtts_wrote, fallback_err, calls, ui>>

\* app.py:129 with 96-97: synth_gtts raises because gtts is not importable
SynthGttsNotInstalled ==
    /\ pc = "TryingFallback"
    /\ ~HAS_GTTS
    /\ calls' = [calls EXCEPT !.fallback = Bump(@)]
    /\ fallback_err' = Some(GttsNotInstalled)
    /\ error_msg' = Some(FallbackErrorMsg(error_msg, GttsNotInstalled))
    /\ pc' = "Deliver"
    /\ UNCHANGED <<HAS_GTTS, text, lang, rate, pitch, fallback, locale,
                   lang_code_for_gtts, audio_bytes, engine_used, voices,
                   voice_name, rate_str, pitch_str, communicate, streamed,
                   primary_err, gtts_wrote, ui>>

\* app.py:129-130 with 98-101: gTTS writes its bytes
SynthGttsCompletes(out) ==
    /\ pc = "TryingFallback"
    /\ HAS_GTTS
    /\ calls' = [calls EXCEPT !.fallback = Bump(@), !.gtts = Bump(@)]
    /\ gtts_wrote' = Some(out)
    /\ audio_bytes' = Some(out)
    /\ engine_used' = GttsLabel(lang_code_for_gtts)
    /\ pc' = "Deliver"
    /\ UNCHANGED <<HAS_GTTS, text, lang, rate, pitch, fallback, locale,
                   lang_code_for_gtts, error_msg, voices, voice_name, rate_str,
                   pitch_str, communicate, streamed, primary_err, fallback_err,
                   ui>>

\* app.py:98-100 raises; the handler of app.py:131-132 appends the text
SynthGttsFails(e) ==
    /\ pc = "TryingFallback"
    /\ HAS_GTTS
    /\ calls' = [calls EXCEPT !.fallback = Bump(@), !.gtts = Bump(@)]
    /\ fallback_err' = Some(e)
    /\ error_msg' = Some(FallbackErrorMsg(error_msg, e))
    /\ pc' = "Deliver"
    /\ UNCHANGED <<HAS_GTTS, text, lang, rate, pitch, fallback, locale,
                   lang_code_for_gtts, audio_bytes, engine_used, voices,
                   voice_name, rate_str, pitch_str, communicate, streamed,
                   primary_err, gtts_wrote, ui>>

\* app.py:134-151: the player and download button, or the error
Deliver ==
    /\ pc = "Deliver"
    /\ pc' = TerminalPc(audio_bytes)
    /\ IF Truthy(audio_bytes)
       THEN ui' = [status |-> "success", label |-> engine_used,
                   audio |-> audio_bytes, detail |-> None,
                   file |-> FileName(locale)]
       ELSE ui' = [status |-> "failed", label |-> << >>, audio |-> None,
                   detail |-> DetailShown(error_msg), file |-> << >>]
    /\ UNCHANGED <<HAS_GTTS, text, lang, rate, pitch, fallback, locale,
                   lang_code_for_gtts, audio_bytes, error_msg, engine_used,
                   voices, voice_name, rate_str, pitch_str, communicate,
                   streamed, primary_err, gtts_wrote, fallback_err, calls>>

\* Streamlit runs the script afresh on the next interaction; widgets keep
\* their values, the locals of the script do not
Rerun ==
    /\ pc \in Terminal
    /\ pc' = "Idle"
    /\ locale' = "" /\ lang_code_for_gtts' = ""
    /\ audio_bytes' = None /\ error_msg' = None /\ engine_used' = << >>
    /\ voices' = None /\ voice_name' = None
    /\ rate_str' = None /\ pitch_str' = None /\ communicate' = None
    /\ streamed' = None /\ primary_err' = None
    /\ gtts_wrote' = None /\ fallback_err' = None
    /\ calls' = NoCalls /\ ui' = BlankUi
    /\ UNCHANGED <<HAS_GTTS, text, lang, rate, pitch, fallback>>

Next ==
    \/ \E t \in Texts, l \in Languages, r \in RateChoices, p \in PitchChoices,
          f \in BOOLEAN : Generate(t, l, r, p, f)
    \/ \E c \in Catalogs : PickFemaleVoice(c)
    \/ \E e \in EngineErrors : CatalogFetchFails(e)
    \/ SynthEdgeTts
    \/ \E s \in Streams : StreamCompletes(s)
    \/ \E e \in EngineErrors : StreamFails(e)
    \/ SynthGttsNotInstalled
    \/ \E b \in GttsOutputs : SynthGttsCompletes(b)
    \/ \E e \in EngineErrors : SynthGttsFails(e)
    \/ Deliver
    \/ Rerun

Spec == Init /\ [][Next]_vars

\* Once the button is pressed the script runs on by itself: every call
\* returns or raises, and the next statement executes.  Pressing the button
\* and rerunning are up to the user and get no fairness.
Progress ==
    \/ \E c \in Catalogs : PickFemaleVoice(c)
    \/ \E e \in EngineErrors : CatalogFetchFails(e)
    \/ SynthEdgeTts
    \/ \E s \in Streams : StreamCompletes(s)
    \/ \E e \in EngineErrors : StreamFails(e)
    \/ SynthGttsNotInstalled
    \/ \E b \in GttsOutputs : SynthGttsCompletes(b)
    \/ \E e \in EngineErrors : SynthGttsFails(e)
    \/ Deliver

FairSpec == Spec /\ WF_vars(Progress)

-----------------------------------------------------------------------------
(* The prosody strings as a pure function of the sliders, app.py:37-39, 80-81 *)

InitFmt ==
    /\ pc = "Fmt"
    /\ HAS_GTTS = TRUE
    /\ text = << >>
    /\ lang = <<"Hindi", " (hi-IN)">>
    /\ rate \in RateMin..RateMax
    /\ pitch \in PitchMin..PitchMax
    /\ fallback = TRUE
    /\ Fresh

FormatProsody ==
    /\ pc = "Fmt"
    /\ rate_str' = Some(RateStr(rate))
    /\ pitch_str' = Some(PitchStr(pitch))
    /\ pc' = "FmtDone"
    /\ UNCHANGED <<HAS_GTTS, text, lang, rate, pitch, fallback, locale,
                   lang_code_for_gtts, audio_bytes, error_msg, engine_used,
                   voices, voice_name, communicate, streamed, primary_err,
                   gtts_wrote, fallback_err, calls, ui>>

SpecFmt == InitFmt /\ [][FormatProsody]_vars

-----------------------------------------------------------------------------
(* Vocabulary of the properties *)

MinOf(S) == CHOOSE i \in S : \A j \in S : i <= j

IsInfix(a, b) ==
    \E i \in 0..(Len(b) - Len(a)) : SubSeq(b, i + 1, i + Len(a)) = a

AllWhitespace(t) == \A i \in DOMAIN t : t[i] \in Whitespace

\* indices of the female voices of the locale, and of the Neural ones among them
FemaleAt(c, loc) ==
    { i \in DOMAIN c : c[i].Locale = loc /\ c[i].Gender = "Female" }

NeuralFemaleAt(c, loc) ==
    { i \in FemaleAt(c, loc) :
        \E k \in 1..Len(c[i].ShortName) : c[i].ShortName[k] = "Neural" }

RECURSIVE ConcatData(_)
ConcatData(cs) ==
    IF cs = << >> THEN << >> ELSE Head(cs).data \o ConcatData(Tail(cs))

IsAudioChunk(c) == c.type = "audio"

\* the audio an edge-tts stream carries: its audio chunks, in order
AudioOf(chunks) == ConcatData(SelectSeq(chunks, IsAudioChunk))

PrimaryRaised == primary_err # None

PrimaryReturned == streamed # None

FallbackEntered == pc = "TryingFallback" \/ calls.fallback > 0

-----------------------------------------------------------------------------
(* C1 *)

\* C1 as stated: the fallback attempt is entered only after the primary
\* attempt failed, with the checkbox enabled and gTTS importable.
C1_FallbackOnlyWhenConfigured ==
    FallbackEntered => (PrimaryRaised /\ fallback /\ HAS_GTTS)

\* C1 amended: the fallback attempt (synth_gtts) is entered only after the
\* primary attempt raised and with the checkbox enabled; the gTTS engine
\* itself is invoked only if HAS_GTTS holds too; without HAS_GTTS the attempt
\* is still made and fails with the not-installed error; with the checkbox
\* off a primary failure ends in Failed with no fallback attempt.
C1_FallbackOnlyWhenEnabled ==
    /\ FallbackEntered => (PrimaryRaised /\ fallback /\ ~PrimaryReturned)
    /\ calls.gtts > 0 => HAS_GTTS
    /\ (calls.fallback > 0 /\ ~HAS_GTTS) =>
           (fallback_err = Some(GttsNotInstalled) /\ calls.gtts = 0
            /\ gtts_wrote = None)
    /\ (pc \in {"Deliver", "Failed"} /\ PrimaryRaised /\ ~fallback) =>
           (calls.fallback = 0 /\ fallback_err = None /\ gtts_wrote = None)
    /\ (pc = "Failed" /\ PrimaryRaised /\ fallback) => calls.fallback = 1

C1_Witness ==
    /\ pc = "Failed" /\ ~HAS_GTTS /\ fallback
    /\ calls.fallback = 1 /\ fallback_err = Some(GttsNotInstalled)

-----------------------------------------------------------------------------
(* C2 *)

\* C2: a request that ends in success delivers exactly the bytes of the
\* first engine (primary, then fallback) whose attempt succeeded, under the
\* label of that engine.
C2_DeliversFirstSuccess ==
    pc = "Succeeded" =>
        /\ ui.status = "success"
        /\ PrimaryReturned \/ PrimaryRaised
        /\ PrimaryReturned =>
               /\ ui.audio = Some(AudioOf(Val(streamed)))
               /\ ui.label = <<"edge-tts (Neural, ", locale, ")">>
               /\ calls.fallback = 0
        /\ PrimaryRaised =>
               /\ fallback /\ gtts_wrote # None
               /\ ui.audio = gtts_wrote
               /\ ui.label = <<"gTTS fallback (", lang_code_for_gtts, ")">>

C2_Witness ==
    /\ pc = "Succeeded" /\ PrimaryReturned
    /\ Len(Val(streamed)) = 2
    /\ Val(streamed)[1].type = "audio" /\ Val(streamed)[2].type = "audio"
    /\ ui.audio = Some(Val(streamed)[1].data \o Val(streamed)[2].data)

-----------------------------------------------------------------------------
(* C3 *)

\* C3 as stated: with a non-empty catalog holding no female voice of the
\* locale, selection returns the first voice of the unfiltered catalog.
C3_FallsBackToAnyVoice ==
    (pc = "Picked" /\ Val(voices) # << >>
     /\ FemaleAt(Val(voices), locale) = {}) =>
        voice_name = Some(Val(voices)[1].ShortName)

\* C3 amended: whenever the catalog holds no female voice of the locale,
\* pick_female_voice returns None and synth_edge_tts raises "No suitable
\* female voice found", so the primary attempt fails without the engine
\* being called.
C3_NoFemaleVoiceFailsPrimary ==
    [][ (pc = "Picked" /\ FemaleAt(Val(voices), locale) = {}) =>
            /\ voice_name = None
            /\ primary_err' =
                   Some(<<"No suitable female voice found for locale ",
                          locale, ".">>)
            /\ error_msg' = primary_err'
            /\ audio_bytes' = None
            /\ communicate' = None /\ calls'.communicate = 0
            /\ pc' \in {"TryingFallback", "Deliver"} ]_vars

C3_Witness ==
    /\ pc = "Picked" /\ Len(Val(voices)) = 2
    /\ \A i \in 1..2 : Val(voices)[i].Locale = locale
    /\ FemaleAt(Val(voices), locale) = {}
    /\ voice_name = None

-----------------------------------------------------------------------------
(* C4 *)

\* C4: pick_female_voice returns the first (in catalog order) Neural
\* female voice of the locale when there is one, else the first female voice
\* of the locale; never a Standard voice while a Neural one exists.
C4_FirstNeuralElseFirstFemale ==
    pc = "Picked" =>
        LET c == Val(voices)
            N == NeuralFemaleAt(c, locale)
            F == FemaleAt(c, locale)
        IN  /\ N # {} => voice_name = Some(c[MinOf(N)].ShortName)
            /\ (N = {} /\ F # {}) => voice_name = Some(c[MinOf(F)].ShortName)
            /\ N # {} => \E k \in DOMAIN Val(voice_name) :
                             Val(voice_name)[k] = "Neural"

C4_Witness ==
    /\ pc = "Picked" /\ Len(Val(voices)) = 2
    /\ FemaleAt(Val(voices), locale) = {1, 2}
    /\ NeuralFemaleAt(Val(voices), locale) = {2}
    /\ voice_name = Some(Val(voices)[2].ShortName)

-----------------------------------------------------------------------------
(* C5 *)

\* C5: a failed request's error detail holds the text of every attempt
\* that raised: the primary text alone (and no fallback call) when the
\* fallback is disabled, both texts when both attempts raised.
C5_DetailHoldsEveryError ==
    pc = "Failed" =>
        /\ (PrimaryRaised /\ ~fallback) =>
               /\ error_msg = primary_err
               /\ OrEmpty(ui.detail) = Val(primary_err)
               /\ calls.fallback = 0 /\ calls.gtts = 0
        /\ (PrimaryRaised /\ fallback_err # None) =>
               /\ IsInfix(Val(primary_err), OrEmpty(ui.detail))
               /\ IsInfix(Val(fallback_err), OrEmpty(ui.detail))
               /\ ui.detail = error_msg

C5_Witness ==
    /\ pc = "Failed" /\ HAS_GTTS
    /\ primary_err = Some(<<"network error">>)
    /\ fallback_err = Some(<<"network error">>)
    /\ ui.detail = Some(<<"network error", " | Fallback error: ",
                          "network error">>)

-----------------------------------------------------------------------------
(* C6 *)

\* C6: every request that does not succeed ends as a reported failure with
\* a non-empty error detail naming a failure that occurred, whatever the
\* engines did, zero audio bytes without an exception included.
C6_FailureCarriesDetail ==
    pc = "Failed" =>
        /\ ui.status = "failed"
        /\ Truthy(ui.detail)
        /\ \/ PrimaryRaised /\ IsInfix(Val(primary_err), Val(ui.detail))
           \/ fallback_err # None /\ IsInfix(Val(fallback_err), Val(ui.detail))

-----------------------------------------------------------------------------
(* C7 *)

\* C7: a request whose text is empty or whitespace only is rejected with
\* the empty-input error and no catalog fetch, primary call or fallback call
\* ever happens for it, whatever the fallback setting.
C7_BlankTextCallsNothing ==
    /\ AllWhitespace(text) =>
           /\ pc \in {"Idle", "Rejected"}
           /\ calls = NoCalls
           /\ communicate = None /\ voices = None
           /\ streamed = None /\ gtts_wrote = None
    /\ pc = "Rejected" => (AllWhitespace(text) /\ ui.status = "empty_input")

C7_Witness ==
    /\ pc = "Rejected" /\ Len(text) >= 1 /\ AllWhitespace(text)
    /\ fallback /\ HAS_GTTS /\ ui.status = "empty_input"

-----------------------------------------------------------------------------
(* C8 *)

\* C8: for an empty catalog the selection yields no voice and the
\* primary attempt raises the no-voice error; Communicate is never built
\* with a missing or empty voice identifier.
C8_EmptyCatalogSignalsNoVoice ==
    /\ [](communicate # None =>
              (Val(communicate).voice # None
               /\ Val(Val(communicate).voice) # << >>))
    /\ []((pc = "Picked" /\ Val(voices) = << >>) => voice_name = None)
    /\ [][ (pc = "Picked" /\ Val(voices) = << >>) =>
               /\ primary_err' =
                      Some(<<"No suitable female voice found for locale ",
                             locale, ".">>)
               /\ communicate' = None
               /\ calls'.communicate = 0
               /\ streamed' = None ]_vars

C8_Witness ==
    /\ pc = "Picked" /\ voices = Some(<< >>) /\ voice_name = None
    /\ calls.catalog = 1

-----------------------------------------------------------------------------
(* C9 *)

\* C9: every dispatched request reaches Succeeded or Failed; each engine
\* is invoked at most once; the fallback starts only once the primary attempt
\* is over; nothing is called after a terminal state.
C9_TerminatesWithoutRetry ==
    /\ [](/\ calls.primary <= 1 /\ calls.catalog <= 1
          /\ calls.communicate <= 1
          /\ calls.fallback <= 1 /\ calls.gtts <= 1)
    /\ [](FallbackEntered =>
              (PrimaryRaised /\ communicate = None /\ voices = None))
    /\ [][ (pc \in {"Succeeded", "Failed"}) =>
               (pc' = "Idle" /\ calls' = NoCalls) ]_vars
    /\ (pc = "TryingPrimary") ~> (pc \in {"Succeeded", "Failed"})

C9_Witness ==
    /\ pc = "Failed"
    /\ calls = [primary |-> 1, catalog |-> 1, communicate |-> 1,
                fallback |-> 1, gtts |-> 1]

-----------------------------------------------------------------------------
(* C10 *)

IsDigits(s) == \A i \in DOMAIN s : \E d \in 1..10 : DigitChars[d] = s[i]

RECURSIVE ParseNat(_)
ParseNat(s) ==
    IF s = << >> THEN 0
    ELSE 10 * ParseNat(SubSeq(s, 1, Len(s) - 1))
         + (CHOOSE d \in 0..9 : DigitChars[d + 1] = s[Len(s)])

Abs(n) == IF n < 0 THEN -n ELSE n

\* signed decimal: "+" or "-", then the magnitude without leading zeros
IsSigned(s, n) ==
    /\ Len(s) >= 2
    /\ s[1] = (IF n >= 0 THEN "+" ELSE "-")
    /\ IsDigits(Tail(s))
    /\ (Len(s) > 2 => s[2] # "0")
    /\ ParseNat(Tail(s)) = Abs(n)

\* C10: every speed in [-50, 50] and pitch in [-8, 8] is forwarded as a
\* signed string with its magnitude unchanged: "+s%" / "-s%", "+pst" / "-pst".
C10_SignedProsodyStrings ==
    pc = "FmtDone" =>
        LET rs == Val(rate_str)
            ps == Val(pitch_str)
        IN  /\ Len(rs) >= 3 /\ rs[Len(rs)] = "%"
            /\ IsSigned(SubSeq(rs, 1, Len(rs) - 1), rate)
            /\ Len(ps) >= 4 /\ SubSeq(ps, Len(ps) - 1, Len(ps)) = <<"s", "t">>
            /\ IsSigned(SubSeq(ps, 1, Len(ps) - 2), pitch)
            /\ rate = 50 => rs = <<"+", "5", "0", "%">>
            /\ rate = -50 => rs = <<"-", "5", "0", "%">>
            /\ pitch = 8 => ps = <<"+", "8", "s", "t">>
            /\ pitch = -8 => ps = <<"-", "8", "s", "t">>

C10_Witness ==
    /\ pc = "FmtDone" /\ rate = -50 /\ pitch = 8
    /\ rate_str = Some(<<"-", "5", "0", "%">>)
    /\ pitch_str = Some(<<"+", "8", "s", "t">>)

====
